---- MODULE Spec2Model ----
(***************************************************************************)
(* Model of the weewar client: the class-based client of src/weewar.py     *)
(* (ReadOnlyAPI, ELIZA and the module-level convenience functions) and the *)
(* legacy module src/weewar/api.py.                                        *)
(*                                                                         *)
(* One action per public operation.  The server is the environment: every  *)
(* action draws the HTTP status and the body the server would answer with  *)
(* (env) and runs the operation's code on it.  The result of the call      *)
(* (value returned or exception raised), the requests that reached the     *)
(* transport and the client's last_call stamp are the state.               *)
(***************************************************************************)
EXTENDS Integers, Sequences, FiniteSets, TLC

\* ------------------------------------------------------------------ bounds
MaxTime == 2            \* clock ticks the model runs after the client is built
TicksPerSecond == 4     \* resolution of the model clock
MaxId == 2              \* game / map ids are 1..MaxId
MaxCoord == 1           \* board coordinates are 0..MaxCoord

\* --------------------------------------------------------------- constants
REQUESTS_PER_SECOND == 2
Epoch == 0              \* datetime(1970, 1, 1), in ticks before the model starts

throttle == TicksPerSecond \div REQUESTS_PER_SECOND
Start == Epoch + throttle + 1   \* any wall-clock time of a run is long after 1970

URL_GAME == "/api1/game/%s"
URL_OPEN_GAMES == "/api1/games/open"
URL_ALL_USERS == "/api1/users/all"
URL_USER == "/api1/user/%s"
URL_LATEST_MAPS == "/api1/maps"
URL_HEADQUARTER == "/api1/headquarters"
URL_GAME_STATE == "/api1/gamestate/%s"
URL_MAP_LAYOUT == "/api1/map/%s"
URL_ELIZA_COMMANDS == "/api1/eliza"

FINISH_TURN == "finishTurn"
ACCEPT_INVITATION == "acceptInvitation"
DECLINE_INVITATION == "declineInvitation"
SEND_REMINDER == "sendReminder"
SURRENDER == "surrender"
ABANDON == "abandon"
REMOVE_GAME == "removeGame"

\* ------------------------------------------------------------ input domains
Ids == 1..MaxId
Usernames == {"basti688", "???"}
Coords == 0..MaxCoord
Positions == Coords \X Coords
UnitTypes == {"Tank", "Trooper"}
ChatMessages == {"gl hf"}
Credentials == [username : {"ai_eviltwin"}, key : {"apikey"}]
NoCredentials == [username |-> "None", key |-> "None"]

\* the literal messages the code compares <error> texts with
MsgGameNotFound == "Game not found"
MsgNotYourTurn == "Not your turn."
MsgNotYourTerrain == "Not your terrain."
MsgNotYourUnit == "Not your Unit."
MsgNotEnoughCredits == "Not enough credits."
MsgCannotBuildMore == "Cannot build any more units in this turn on this coordinate."
MsgWrongTerrain == "This Terrain cannot build the requested unit."
MsgBlocked == "Blocked by a unit."
MsgAlreadyAccepted == "You have already accepted the invitation."
MsgCannotDecline == "Cannot decline an invitation."
MsgCannotRemind == "Can not remind current player."
MsgCannotSurrender == "Can not surrender."
MsgNotRunning == "Game is not running."
MsgAlreadyDeleted == "Game has already been deleted."
MsgOther == "Invalid move."       \* a message no comparison in the code names

TableMessages ==
    {MsgNotYourTurn, MsgNotYourTerrain, MsgNotYourUnit, MsgNotEnoughCredits,
     MsgCannotBuildMore, MsgWrongTerrain, MsgBlocked, MsgGameNotFound}
BenignMessages ==
    {MsgAlreadyAccepted, MsgCannotDecline, MsgCannotRemind,
     MsgCannotSurrender, MsgNotRunning, MsgAlreadyDeleted}
Messages == TableMessages \cup BenignMessages \cup {MsgOther}

\* --------------------------------------------------------------- XML nodes
\* a decoded reply: root tag, text of the root, <coordinate> children
Node(tag, text, coords) == [tag |-> tag, text |-> text, coords |-> coords]
NoNode == Node("", "", <<>>)
OkNode == Node("ok", "", <<>>)
ErrorNode(m) == Node("error", m, <<>>)
DocNode(tag) == Node(tag, "", <<>>)

\* what the server answers: an HTTP status and, with 200, a body that is
\* either well-formed XML (wf) with the given root or not XML at all
Env(status, wf, node) == [status |-> status, wf |-> wf, node |-> node]
FailEnvs == {Env(s, FALSE, NoNode) : s \in {401, 404, 500}}
Malformed == Env(200, FALSE, NoNode)
ReadEnvs(tag) == FailEnvs \cup {Malformed, Env(200, TRUE, DocNode(tag))}
CommandEnvs ==
    FailEnvs \cup {Malformed, Env(200, TRUE, OkNode),
                   Env(200, TRUE, Node("ok", "", << <<0, 1>> >>))}
             \cup {Env(200, TRUE, ErrorNode(m)) : m \in Messages}

\* ---------------------------------------------------------------- outcomes
\* the result of one invocation: a returned value or a raised exception
Ret(v) == [kind |-> "return", exc |-> "", val |-> v, args |-> <<>>,
           node |-> NoNode]
RetNode(n) == [kind |-> "return", exc |-> "", val |-> "node", args |-> <<>>,
               node |-> n]
RetList(l) == [kind |-> "return", exc |-> "", val |-> "list", args |-> l,
               node |-> NoNode]
Exc(e, a) == [kind |-> "raise", exc |-> e, val |-> "", args |-> a,
              node |-> NoNode]
ExcNode(e, n) == [kind |-> "raise", exc |-> e, val |-> "", args |-> <<>>,
                  node |-> n]
NoOutcome == [kind |-> "none", exc |-> "", val |-> "", args |-> <<>>,
              node |-> NoNode]
PyBool(b) == IF b THEN "True" ELSE "False"

\* one request that reached the transport
NoData == <<>>
NoAuth == NoCredentials
Request(method, path, arg, auth, body) ==
    [method |-> method, path |-> path, arg |-> arg, auth |-> auth,
     body |-> body]

\* the running state of one invocation: outcome so far, the instance's
\* last_call, the requests sent
Res(out, lc, reqs) == [out |-> out, last_call |-> lc, reqs |-> reqs]
Raised(r) == r.out.kind = "raise"

\* ------------------------------------------------------------ client object
\* ReadOnlyAPI.__init__ / ELIZA(username, key)
ReadOnlyAPI(username, key) ==
    [username |-> username, key |-> key, last_call |-> Epoch]
ELIZA(username, key) == ReadOnlyAPI(username, key)

\* ------------------------------------------------------------- the transport
\* _call_api with the signature (self, url, data=None): a positional argument
\* after url is taken as the request body
_call_api_positional(self, t, path, arg, extra, data, env) ==
    LET body == IF Len(extra) > 0 THEN extra ELSE data
        req == IF body # NoData
               THEN Request("POST", path, arg,
                            [username |-> self.username, key |-> self.key],
                            body)
               ELSE Request("GET", path, arg, NoAuth, NoData)
    IN  IF t - self.last_call < throttle
        THEN Res(Exc("AttributeError", <<"sleep">>), self.last_call, <<req>>)
        ELSE IF env.status = 401
        THEN Res(Exc("AuthenticationError", <<>>), t, <<req>>)
        ELSE IF env.status = 404
        THEN Res(Exc("NotFound", <<>>), t, <<req>>)
        ELSE IF env.status = 500
        THEN Res(Exc("ServerError", <<>>), t, <<req>>)
        ELSE IF ~env.wf
        THEN Res(Exc("XMLSyntaxError", <<>>), t, <<req>>)
        ELSE Res(RetNode(env.node), t, <<req>>)

\* _call_api sending the request a second time when the server answers 500
_call_api_retry(self, t, path, arg, extra, data, env) ==
    IF Len(extra) > 0
    THEN Res(Exc("TypeError", <<"_call_api">>), self.last_call, <<>>)
    ELSE
    LET req == IF data # NoData
               THEN Request("POST", path, arg,
                            [username |-> self.username, key |-> self.key],
                            data)
               ELSE Request("GET", path, arg, NoAuth, NoData)
    IN  IF t - self.last_call < throttle
        THEN Res(Exc("AttributeError", <<"sleep">>), self.last_call, <<req>>)
        ELSE IF env.status = 401
        THEN Res(Exc("AuthenticationError", <<>>), t, <<req>>)
        ELSE IF env.status = 404
        THEN Res(Exc("NotFound", <<>>), t, <<req>>)
        ELSE IF env.status = 500
        THEN Res(Exc("ServerError", <<>>), t, <<req, req>>)
        ELSE IF ~env.wf
        THEN Res(Exc("XMLSyntaxError", <<>>), t, <<req>>)
        ELSE Res(RetNode(env.node), t, <<req>>)

\* ReadOnlyAPI._call_api(self, url, **data), called at time t with the extra
\* positional arguments `extra` and the keyword arguments `data`.  The
\* signature takes no positional argument after url: a call that passes one
\* fails with TypeError when the arguments are bound, before the body runs.
\* The request is sent first, then the throttle is looked at, then the status.
_call_api(self, t, path, arg, extra, data, env) ==
    IF Len(extra) > 0
    THEN Res(Exc("TypeError", <<"_call_api">>), self.last_call, <<>>)
    ELSE
    LET req == IF data # NoData
               THEN Request("POST", path, arg,
                            [username |-> self.username, key |-> self.key],
                            data)
               ELSE Request("GET", path, arg, NoAuth, NoData)
    IN  \* time.sleep(wait): `time` is datetime.time, which has no sleep
        IF t - self.last_call < throttle
        THEN Res(Exc("AttributeError", <<"sleep">>), self.last_call, <<req>>)
        ELSE IF env.status = 401
        THEN Res(Exc("AuthenticationError", <<>>), t, <<req>>)
        ELSE IF env.status = 404
        THEN Res(Exc("NotFound", <<>>), t, <<req>>)
        ELSE IF env.status = 500
        THEN Res(Exc("ServerError", <<>>), t, <<req>>)
        ELSE IF ~env.wf
        THEN Res(Exc("XMLSyntaxError", <<>>), t, <<req>>)
        ELSE Res(RetNode(env.node), t, <<req>>)

\* `except E: raise F(a)` around a computation r
Translate(r, E, F, a) ==
    IF Raised(r) /\ r.out.exc = E THEN [r EXCEPT !.out = Exc(F, a)] ELSE r

\* the entity mappers, as far as the operations below need them: a payload of
\* the documented shape yields a record
Mapped(r, v) == IF Raised(r) THEN r ELSE [r EXCEPT !.out = Ret(v)]

\* ----------------------------------------------------- read operations
ReadOnlyAPI_game(self, t, id_, env) ==
    Translate(Mapped(_call_api(self, t, URL_GAME, <<id_>>, <<>>, NoData, env),
                     "game"),
              "NotFound", "GameNotFound", <<id_>>)

ReadOnlyAPI_open_games(self, t, env) ==
    Mapped(_call_api(self, t, URL_OPEN_GAMES, <<>>, <<>>, NoData, env), "ids")

ReadOnlyAPI_all_users(self, t, env) ==
    Mapped(_call_api(self, t, URL_ALL_USERS, <<>>, <<>>, NoData, env), "users")

ReadOnlyAPI_user(self, t, username, env) ==
    Translate(Mapped(_call_api(self, t, URL_USER, <<username>>, <<>>, NoData,
                               env), "user"),
              "NotFound", "UserNotFound", <<username>>)

ReadOnlyAPI_latest_maps(self, t, env) ==
    Mapped(_call_api(self, t, URL_LATEST_MAPS, <<>>, <<>>, NoData, env), "maps")

ReadOnlyAPI_headquarter(self, t, env) ==
    Mapped(_call_api(self, t, URL_HEADQUARTER, <<>>, <<>>, NoData, env),
           "headquarter")

ELIZA_game_state(self, t, id_, env) ==
    Translate(
        Translate(Mapped(_call_api(self, t, URL_GAME_STATE, <<id_>>, <<>>,
                                   NoData, env), "game_state"),
                  "NotFound", "GameNotFound", <<id_>>),
        "Unauthorised", "NotYourGame", <<id_>>)

ELIZA_map_layout(self, t, id_, env) ==
    Translate(Mapped(_call_api(self, t, URL_MAP_LAYOUT, <<id_>>, <<>>, NoData,
                               env), "map_layout"),
              "NotFound", "MapNotFound", <<id_>>)

\* ------------------------------------------------------ command elements
\* str() of a non-negative integer
Digit == <<"0", "1", "2", "3", "4", "5", "6", "7", "8", "9">>
RECURSIVE str(_)
str(n) == IF n < 10 THEN Digit[n + 1] ELSE str(n \div 10) \o Digit[(n % 10) + 1]

\* ELEMENT.<tag>(*children, **attrs); attrs is a set of <<name, value>> pairs
Element(tag, attrs, text, children) ==
    [tag |-> tag, attrs |-> attrs, text |-> text, children |-> children]
\* lxml.etree.tostring(element): the serialized document
tostring(element) == [xml |-> element]

\* --------------------------------------------------- the command dispatcher
\* ELIZA._game_command(self, game_id, node)
_game_command(self, t, game_id, node, env) ==
    LET game == Element("weewar", {<<"game", str(game_id)>>}, "", <<node>>)
        r == _call_api(self, t, URL_ELIZA_COMMANDS, <<>>, <<tostring(game)>>,
                       NoData, env)
    IN  IF Raised(r) THEN r
        ELSE IF r.out.node.tag = "error"
        THEN IF r.out.node.text = MsgGameNotFound
             THEN [r EXCEPT !.out = Exc("GameNotFound", <<game_id>>)]
             ELSE IF r.out.node.text = MsgNotYourTurn
             THEN [r EXCEPT !.out = Exc("NotYourTurn", <<>>)]
             ELSE [r EXCEPT !.out = ExcNode("ELIZAError", r.out.node)]
        ELSE r

\* ELIZA._simple_game_command(self, game_id, cmd)
_simple_game_command(self, t, game_id, cmd, env) ==
    _game_command(self, t, game_id, Element(cmd, {}, "", <<>>), env)

\* ELIZA.chat(self, game_id, msg)
ELIZA_chat(self, t, game_id, msg, env) ==
    LET r == _game_command(self, t, game_id, Element("chat", {}, msg, <<>>),
                           env)
    IN  IF Raised(r) THEN r ELSE [r EXCEPT !.out = Ret("True")]

\* ELIZA.build(self, game_id, position, type_)
ELIZA_build(self, t, game_id, position, type_, env) ==
    LET x == position[1]
        y == position[2]
        r == _game_command(self, t, game_id,
                 Element("build", {<<"x", str(x)>>, <<"y", str(y)>>,
                                   <<"type_", type_>>}, "", <<>>), env)
    IN  IF ~Raised(r)
        THEN [r EXCEPT !.out = Ret(PyBool(r.out.node.tag = "ok"))]
        ELSE IF r.out.exc # "ELIZAError" THEN r
        ELSE IF r.out.node.text = MsgNotEnoughCredits
        THEN [r EXCEPT !.out = Exc("NotEnoughCredits", <<type_>>)]
        ELSE IF r.out.node.text = MsgNotYourTerrain
        THEN [r EXCEPT !.out = Exc("NotYourTerrain", <<x, y>>)]
        ELSE IF r.out.node.text = MsgCannotBuildMore
        THEN [r EXCEPT !.out = Exc("CannotBuildMoreUnitsHere", <<x, y>>)]
        ELSE IF r.out.node.text = MsgWrongTerrain
        THEN [r EXCEPT !.out = Exc("WrongTerrain", <<x, y>>)]
        ELSE IF r.out.node.text = MsgBlocked
        THEN [r EXCEPT !.out = Exc("FieldIsBlocked", <<x, y>>)]
        ELSE [r EXCEPT !.out = Ret("False")]

\* ELIZA.move_options(self, game_id, position, type_)
ELIZA_move_options(self, t, game_id, position, type_, env) ==
    LET x == position[1]
        y == position[2]
        r == _game_command(self, t, game_id,
                 Element("movementOptions",
                         {<<"x", str(x)>>, <<"y", str(y)>>, <<"type", type_>>},
                         "", <<>>), env)
    IN  IF ~Raised(r) THEN [r EXCEPT !.out = RetList(r.out.node.coords)]
        ELSE IF r.out.exc = "ELIZAError" THEN [r EXCEPT !.out = RetList(<<>>)]
        ELSE r

\* ELIZA.attack_options(self, game_id, position, type_, moved=None)
ELIZA_attack_options(self, t, game_id, position, type_, moved, env) ==
    LET x == position[1]
        y == position[2]
        base == {<<"x", str(x)>>, <<"y", str(y)>>, <<"type", type_>>}
        attrs == IF moved # -1 THEN base \cup {<<"moved", str(moved)>>}
                 ELSE base
        r == _game_command(self, t, game_id,
                           Element("attackOptions", attrs, "", <<>>), env)
    IN  IF ~Raised(r)
        THEN [r EXCEPT !.out = Ret(PyBool(r.out.node.tag = "ok"))]
        ELSE IF r.out.exc = "ELIZAError" THEN [r EXCEPT !.out = Ret("False")]
        ELSE r

\* ELIZA._unit_command(self, game_id, position, command, **kwargs)
_unit_command(self, t, game_id, position, command, kwargs, env) ==
    LET x == position[1]
        y == position[2]
        unit == Element("unit", {<<"x", str(x)>>, <<"y", str(y)>>}, "",
                        <<Element(command, kwargs, "", <<>>)>>)
        r == _game_command(self, t, game_id, unit, env)
    IN  IF Raised(r) /\ r.out.exc = "ELIZAError"
           /\ r.out.node.text = MsgNotYourUnit
        THEN [r EXCEPT !.out = Exc("NotYourUnit", <<x, y>>)]
        ELSE r

\* ------------------------------------------- module-level functions
\* each builds a fresh client and delegates to it
game(t, game_id, env) ==
    ReadOnlyAPI_game(ReadOnlyAPI("None", "None"), t, game_id, env)
open_games(t, env) ==
    ReadOnlyAPI_open_games(ReadOnlyAPI("None", "None"), t, env)
all_users(t, env) ==
    ReadOnlyAPI_all_users(ReadOnlyAPI("None", "None"), t, env)
user(t, username, env) ==
    ReadOnlyAPI_user(ReadOnlyAPI("None", "None"), t, username, env)
latest_maps(t, env) ==
    ReadOnlyAPI_latest_maps(ReadOnlyAPI("None", "None"), t, env)
headquarter(t, username, key, env) ==
    ReadOnlyAPI_headquarter(ReadOnlyAPI(username, key), t, env)
game_state(t, username, key, game_id, env) ==
    ELIZA_game_state(ELIZA(username, key), t, game_id, env)
map_layout(t, map_id, env) ==
    ELIZA_map_layout(ELIZA("None", "None"), t, map_id, env)

\* `return node.tag == 'ok'` with the benign messages `benign` of the
\* operation: an ELIZAError with one of them returns False, any other
\* exception propagates
SimpleResult(r, benign) ==
    IF ~Raised(r) THEN [r EXCEPT !.out = Ret(PyBool(r.out.node.tag = "ok"))]
    ELSE IF r.out.exc = "ELIZAError" /\ r.out.node.text \in benign
    THEN [r EXCEPT !.out = Ret("False")]
    ELSE r

finish_turn(t, username, key, game_id, env) ==
    LET r == _simple_game_command(ELIZA(username, key), t, game_id,
                                  FINISH_TURN, env)
    IN  IF ~Raised(r) THEN [r EXCEPT !.out = Ret(PyBool(r.out.node.tag = "ok"))]
        ELSE IF r.out.exc = "NotYourTurn" THEN [r EXCEPT !.out = Ret("False")]
        ELSE r

accept_invitation(t, username, key, game_id, env) ==
    SimpleResult(_simple_game_command(ELIZA(username, key), t, game_id,
                                      ACCEPT_INVITATION, env),
                 {MsgAlreadyAccepted})

decline_invitation(t, username, key, game_id, env) ==
    SimpleResult(_simple_game_command(ELIZA(username, key), t, game_id,
                                      DECLINE_INVITATION, env),
                 {MsgCannotDecline})

send_reminder(t, username, key, game_id, env) ==
    SimpleResult(_simple_game_command(ELIZA(username, key), t, game_id,
                                      SEND_REMINDER, env),
                 {MsgCannotRemind})

surrender_game(t, username, key, game_id, env) ==
    SimpleResult(_simple_game_command(ELIZA(username, key), t, game_id,
                                      SURRENDER, env),
                 {MsgCannotSurrender, MsgNotRunning})

abandon_game(t, username, key, game_id, env) ==
    SimpleResult(_simple_game_command(ELIZA(username, key), t, game_id,
                                      ABANDON, env),
                 {MsgNotRunning})

remove_game(t, username, key, game_id, env) ==
    SimpleResult(_simple_game_command(ELIZA(username, key), t, game_id,
                                      REMOVE_GAME, env),
                 {MsgAlreadyDeleted})

chat(t, username, key, game_id, msg, env) ==
    ELIZA_chat(ELIZA(username, key), t, game_id, msg, env)

build_unit(t, username, key, game_id, position, unit, env) ==
    ELIZA_build(ELIZA(username, key), t, game_id, position, unit, env)

unit_move_options(t, username, key, game_id, unit, position, env) ==
    ELIZA_move_options(ELIZA(username, key), t, game_id, position, unit, env)

unit_attack_options(t, username, key, game_id, unit, position, moved, env) ==
    ELIZA_attack_options(ELIZA(username, key), t, game_id, position, unit,
                         moved, env)

\* dict(zip('xy', map(str, to)))
XY(to) == {<<"x", str(to[1])>>, <<"y", str(to[2])>>}

move_unit(t, username, key, game_id, unit, from_, to, env) ==
    _unit_command(ELIZA(username, key), t, game_id, from_, "move", XY(to), env)

attack_with(t, username, key, game_id, unit, from_, target, env) ==
    _unit_command(ELIZA(username, key), t, game_id, from_, "attack",
                  XY(target), env)

capture_base(t, username, key, game_id, unit, at, env) ==
    _unit_command(ELIZA(username, key), t, game_id, at, "capture", {}, env)

repair_unit(t, username, key, game_id, unit, at, env) ==
    _unit_command(ELIZA(username, key), t, game_id, at, "repair", {}, env)

\* ------------------------------------------------ legacy module weewar.api
\* _call_api(url, username=None, password=None): urllib2.urlopen raises
\* HTTPError for every status that is not a success; nothing in the module
\* catches it, and the module defines no exception class of its own
api__call_api(path, arg, username, password, env) ==
    LET auth == IF username # "None"
                THEN [username |-> username, key |-> password] ELSE NoAuth
        req == Request("GET", path, arg, auth, NoData)
    IN  IF env.status # 200
        THEN Res(Exc("HTTPError", <<env.status>>), Epoch, <<req>>)
        ELSE IF ~env.wf THEN Res(Exc("XMLSyntaxError", <<>>), Epoch, <<req>>)
        ELSE Res(RetNode(env.node), Epoch, <<req>>)

api_game(id, env) ==
    Mapped(api__call_api(URL_GAME, <<id>>, "None", "None", env), "game")

api_user(username, env) ==
    Mapped(api__call_api(URL_USER, <<username>>, "None", "None", env), "user")

\* ------------------------------------------------------ the response decoder
\* Texts are sequences of one-character strings, so that lower(), strip() and
\* int() work on them as Python does.
T_7 == <<"7">>
T_12 == <<"1", "2">>
T_sp7 == <<" ", "7">>
T_abc == <<"a", "b", "c">>
T_true == <<"t", "r", "u", "e">>
T_TRUE == <<"T", "R", "U", "E">>
T_sp_true_sp == <<" ", "t", "r", "u", "e", " ">>
T_false == <<"f", "a", "l", "s", "e">>
T_None == <<"N", "o", "n", "e">>

\* Python values: None, int, bool, str
PyNone == [t |-> "None", n |-> 0, s |-> <<>>]
PyInt(n) == [t |-> "int", n |-> n, s |-> <<>>]
PyTruth(b) == [t |-> "bool", n |-> IF b THEN 1 ELSE 0, s |-> <<>>]
PyStr(cs) == [t |-> "str", n |-> 0, s |-> cs]
PyTrue == PyTruth(TRUE)
PyFalse == PyTruth(FALSE)

\* the result of a mapper: a value, or an exception that leaves it
Value(v) == [exc |-> "", val |-> v]
Error(e) == [exc |-> e, val |-> PyNone]

\* an XML element: tag, attributes (a function from the names present to
\* their texts), text and child elements
XNode(tag, attrs, text, children) ==
    [tag |-> tag, attrs |-> attrs, text |-> text, children |-> children]
NoAttrs == [k \in {} |-> <<>>]
Leaf(tag, text) == XNode(tag, NoAttrs, text, <<>>)
\* node.get(key, None)
HasAttr(node, key) == key \in DOMAIN node.attrs
\* node.findall(tag), node.iterchildren() filtered by tag
findall(node, tag) == SelectSeq(node.children, LAMBDA c : c.tag = tag)
\* node.<tag>: the first child with that tag; AttributeError when there is none
HasChild(node, tag) == findall(node, tag) # <<>>
Child(node, tag) == Head(findall(node, tag))

\* str.lower()
LowerChar(c) ==
    CASE c = "T" -> "t" [] c = "R" -> "r" [] c = "U" -> "u" [] c = "E" -> "e"
      [] c = "N" -> "n" [] OTHER -> c
lower(cs) == [i \in DOMAIN cs |-> LowerChar(cs[i])]
\* str.strip()
RECURSIVE lstrip(_)
lstrip(cs) == IF cs # <<>> /\ Head(cs) = " " THEN lstrip(Tail(cs)) ELSE cs
RECURSIVE rstrip(_)
rstrip(cs) ==
    IF cs # <<>> /\ cs[Len(cs)] = " " THEN rstrip(SubSeq(cs, 1, Len(cs) - 1))
    ELSE cs
strip(cs) == rstrip(lstrip(cs))

\* int(text): surrounding blanks and a sign are accepted, then digits only
IsDigit(c) == \E d \in 1..10 : Digit[d] = c
DigitValue(c) == (CHOOSE d \in 1..10 : Digit[d] = c) - 1
RECURSIVE Decimal(_)
Decimal(ds) ==
    IF ds = <<>> THEN 0
    ELSE 10 * Decimal(SubSeq(ds, 1, Len(ds) - 1)) + DigitValue(ds[Len(ds)])
Unsigned(cs) == IF cs # <<>> /\ Head(cs) \in {"-", "+"} THEN Tail(cs) ELSE cs
IsNumeric(cs) ==
    LET ds == Unsigned(strip(cs))
    IN  ds # <<>> /\ \A i \in DOMAIN ds : IsDigit(ds[i])
int(cs) ==
    LET st == strip(cs)
        n == Decimal(Unsigned(st))
    IN  IF st # <<>> /\ Head(st) = "-" THEN 0 - n ELSE n

\* child.pyval of a leaf element: the scalar inferred from its text, integer
\* first, then the boolean literals, else the string
pyval(node) ==
    IF IsNumeric(node.text) THEN PyInt(int(node.text))
    ELSE IF node.text = T_true THEN PyTrue
    ELSE IF node.text = T_false THEN PyFalse
    ELSE PyStr(node.text)

\* ReadOnlyAPI._parse_attrs(node, **attrs); attrs maps names to "int", "str"
\* or "bool".  The result maps the names kept to their values.
ParseAttr(node, key, type_) ==
    IF type_ = "bool"
    THEN PyTruth(strip(lower(IF HasAttr(node, key) THEN node.attrs[key]
                              ELSE T_None)) = T_true)
    ELSE IF type_ = "int"
    THEN IF IsNumeric(node.attrs[key]) THEN PyInt(int(node.attrs[key]))
         ELSE PyStr(node.attrs[key])
    ELSE PyStr(node.attrs[key])

\* _parse_attrs keeping only the attributes the node has
_parse_attrs_present_only(node, attrs) ==
    [key \in {k \in DOMAIN attrs : HasAttr(node, k)}
        |-> ParseAttr(node, key, attrs[key])]

_parse_attrs(node, attrs) ==
    [key \in {k \in DOMAIN attrs : HasAttr(node, k) \/ attrs[k] = "bool"}
        |-> ParseAttr(node, key, attrs[key])]

\* dict((child.tag, child.pyval) for child in node.iterchildren() if child.tag
\* not in complex_types): a later child replaces an earlier one with its tag;
\* an element that has children has no pyval (AttributeError)
Scalars(node, complex_types) ==
    SelectSeq(node.children, LAMBDA c : c.tag \notin complex_types)
ScalarsFail(node, complex_types) ==
    \E i \in DOMAIN node.children :
        /\ node.children[i].tag \notin complex_types
        /\ node.children[i].children # <<>>
\* ScalarValues keeping only the children a whitelist names
ScalarValues_whitelisted(node, complex_types) ==
    LET sc == SelectSeq(Scalars(node, complex_types),
                        LAMBDA c : c.tag \in {"id", "name", "points",
                                              "width"})
    IN  [tag \in {sc[i].tag : i \in DOMAIN sc} |->
            pyval(sc[CHOOSE i \in DOMAIN sc :
                        /\ sc[i].tag = tag
                        /\ \A j \in DOMAIN sc : sc[j].tag = tag => j <= i])]

ScalarValues(node, complex_types) ==
    LET sc == Scalars(node, complex_types)
    IN  [tag \in {sc[i].tag : i \in DOMAIN sc} |->
            pyval(sc[CHOOSE i \in DOMAIN sc :
                        /\ sc[i].tag = tag
                        /\ \A j \in DOMAIN sc : sc[j].tag = tag => j <= i])]

\* values[key] = value
Put(values, key, value) == (key :> value) @@ values

\* the first error of a list of results, "" when there is none
FirstError(rs) ==
    IF \E i \in DOMAIN rs : rs[i].exc # ""
    THEN rs[CHOOSE i \in DOMAIN rs :
                /\ rs[i].exc # ""
                /\ \A j \in DOMAIN rs : rs[j].exc # "" => i <= j].exc
    ELSE ""
Values(rs) == [i \in DOMAIN rs |-> rs[i].val]

\* ReadOnlyAPI._parse_game._attrs: one attribute converted in the try block
\*   bool: node.get(attr).lower() == 'true'   (None.lower(): AttributeError)
\*   else: type_(node.get(attr))              (int(None): TypeError,
\*                                             int('abc'): ValueError,
\*                                             str(None): 'None')
TryAttr(node, attr, type_) ==
    IF type_ = "bool"
    THEN IF HasAttr(node, attr)
         THEN Value(PyTruth(lower(node.attrs[attr]) = T_true))
         ELSE Error("AttributeError")
    ELSE IF type_ = "int"
    THEN IF ~HasAttr(node, attr) THEN Error("TypeError")
         ELSE IF ~IsNumeric(node.attrs[attr]) THEN Error("ValueError")
         ELSE Value(PyInt(int(node.attrs[attr])))
    ELSE Value(PyStr(IF HasAttr(node, attr) THEN node.attrs[attr] ELSE T_None))

\* _attrs giving False to an optional bool attribute that is absent
_attrs_defaulting(node, required, optional) ==
    LET all == DOMAIN required \cup DOMAIN optional
        type_(k) == IF k \in DOMAIN required THEN required[k] ELSE optional[k]
        uncaught == {TryAttr(node, k, type_(k)).exc : k \in all}
                        \ {"", "AttributeError"}
    IN  IF uncaught # {} THEN Error(CHOOSE e \in uncaught : TRUE)
        ELSE Value([k \in all |->
                       IF TryAttr(node, k, type_(k)).exc = ""
                       THEN TryAttr(node, k, type_(k)).val
                       ELSE IF k \in DOMAIN optional THEN PyFalse
                       ELSE PyNone])

\* ReadOnlyAPI._parse_game._attrs(node, required, optional): only
\* AttributeError is caught; a required attribute then gets node.get(attr),
\* an optional one is left out
_attrs(node, required, optional) ==
    LET all == DOMAIN required \cup DOMAIN optional
        type_(k) == IF k \in DOMAIN required THEN required[k] ELSE optional[k]
        uncaught == {TryAttr(node, k, type_(k)).exc : k \in all}
                        \ {"", "AttributeError"}
        kept == {k \in all : \/ k \in DOMAIN required
                             \/ TryAttr(node, k, optional[k]).exc = ""}
    IN  IF uncaught # {} THEN Error(CHOOSE e \in uncaught : TRUE)
        ELSE Value([k \in kept |->
                       IF TryAttr(node, k, type_(k)).exc = ""
                       THEN TryAttr(node, k, type_(k)).val
                       ELSE PyNone])

PlayerRequired == [k \in {"index", "result"} |->
                      IF k = "index" THEN "int" ELSE "str"]
PlayerOptional == [k \in {"current"} |-> "bool"]

\* ReadOnlyAPI._parse_game(node)
_parse_game(node) ==
    LET complex_types == {"players", "disabledUnitTypes"}
        values == ScalarValues(node, complex_types)
        players == [i \in DOMAIN Child(node, "players").children |->
                       LET player == Child(node, "players").children[i]
                           a == _attrs(player, PlayerRequired, PlayerOptional)
                       IN  IF a.exc # "" THEN a
                           ELSE Value(Put(a.val, "username", player))]
    IN  IF ScalarsFail(node, complex_types) THEN Error("AttributeError")
        ELSE IF ~HasChild(node, "players") THEN Error("AttributeError")
        ELSE IF FirstError(players) # "" THEN Error(FirstError(players))
        ELSE IF ~HasChild(node, "disabledUnitTypes")
        THEN Error("AttributeError")
        ELSE Value(Put(Put(values, "players", Values(players)),
                       "disabledUnitTypes",
                       findall(Child(node, "disabledUnitTypes"), "type")))

\* ReadOnlyAPI.headquarter, from the decoded root on
headquarter_parse(node) ==
    Put(ScalarValues(node, {}), "inNeedOfAttention",
        PyTruth(HasAttr(node, "inNeedOfAttention")
                /\ node.attrs["inNeedOfAttention"] = T_true))
ReadOnlyAPI_headquarter_games(root) ==
    LET games == findall(root, "game")
    IN  IF ~HasChild(root, "inNeedOfAttention") THEN Error("AttributeError")
        ELSE IF \E i \in DOMAIN games : ScalarsFail(games[i], {})
        THEN Error("AttributeError")
        ELSE Value([needAttention |-> Child(root, "inNeedOfAttention"),
                    games |-> [i \in DOMAIN games |->
                                  headquarter_parse(games[i])]])


\* node.get(key): the text, or None
Get(node, key) == IF HasAttr(node, key) THEN PyStr(node.attrs[key]) ELSE PyNone
\* int(node.get(key)) outside any try: TypeError for None, ValueError for text
\* that is no number
IntAttr(node, key) ==
    IF ~HasAttr(node, key) THEN Error("TypeError")
    ELSE IF ~IsNumeric(node.attrs[key]) THEN Error("ValueError")
    ELSE Value(PyInt(int(node.attrs[key])))
\* [f(child) for child in node.<tag>.iterchildren() if child.tag == kind]
Entries(node, tag, kind) == findall(Child(node, tag), kind)
\* an attribute table from its int, str and bool names
Table(ints, strs, bools) ==
    [k \in ints \cup strs \cup bools |->
        IF k \in ints THEN "int" ELSE IF k \in strs THEN "str" ELSE "bool"]

\* ReadOnlyAPI._parse_map(node)
_parse_map(node) ==
    IF ScalarsFail(node, {}) THEN Error("AttributeError")
    ELSE IF IntAttr(node, "id").exc # "" THEN IntAttr(node, "id")
    ELSE Value(Put(ScalarValues(node, {}), "id", IntAttr(node, "id").val))

\* ReadOnlyAPI._parse_user(node)
_parse_user(node) ==
    LET complex_types == {"favoriteUnits", "games", "maps", "preferredPlayers"}
        values == Put(ScalarValues(node, complex_types), "name",
                      Get(node, "name"))
        games == [i \in DOMAIN Entries(node, "games", "game") |->
                     [id |-> pyval(Entries(node, "games", "game")[i]),
                      name |-> Get(Entries(node, "games", "game")[i], "name")]]
        favoriteUnits ==
            [i \in DOMAIN Entries(node, "favoriteUnits", "unit") |->
                Get(Entries(node, "favoriteUnits", "unit")[i], "code")]
        preferredPlayers ==
            [i \in DOMAIN Entries(node, "preferredPlayers", "player") |->
                _parse_attrs(Entries(node, "preferredPlayers", "player")[i],
                             Table({"id"}, {"name"}, {}))]
        maps == [i \in DOMAIN Entries(node, "maps", "map") |->
                    pyval(Entries(node, "maps", "map")[i])]
    IN  IF ScalarsFail(node, complex_types) THEN Error("AttributeError")
        ELSE IF IntAttr(node, "id").exc # "" THEN IntAttr(node, "id")
        ELSE IF \E tag \in complex_types : ~HasChild(node, tag)
        THEN Error("AttributeError")
        ELSE Value(Put(Put(Put(Put(Put(values,
                 "id", IntAttr(node, "id").val),
                 "games", games),
                 "favoriteUnits", favoriteUnits),
                 "preferredPlayers", preferredPlayers),
                 "maps", maps))

\* ReadOnlyAPI.open_games, from the decoded root on
ReadOnlyAPI_open_games_ids(root) ==
    LET ids == [i \in DOMAIN findall(root, "game") |->
                   IntAttr(findall(root, "game")[i], "id")]
    IN  IF FirstError(ids) # "" THEN Error(FirstError(ids))
        ELSE Value(Values(ids))

\* ELIZA._parse_game_state(node)
_parse_player(node) ==
    Put(_parse_attrs(node, Table({"index"}, {"result"}, {"current"})),
        "username", pyval(node))
_parse_unit(node) ==
    _parse_attrs(node, Table({"x", "y", "quantity"}, {"type"}, {"finished"}))
_parse_terrain(node) ==
    _parse_attrs(node, Table({"x", "y"}, {"type"}, {"finished"}))
_parse_faction(node) ==
    Put(Put(_parse_attrs(node, Table({"playerId", "credits"},
                                     {"playerName", "state", "result"},
                                     {"current"})),
            "units", [i \in DOMAIN findall(node, "unit") |->
                         _parse_unit(findall(node, "unit")[i])]),
        "terrain", [i \in DOMAIN findall(node, "terrain") |->
                       _parse_terrain(findall(node, "terrain")[i])])
_parse_game_state(node) ==
    LET complex_types == {"players", "disabledUnitTypes", "factions"}
        values == ScalarValues(node, complex_types)
    IN  IF ScalarsFail(node, complex_types) THEN Error("AttributeError")
        ELSE IF ~HasChild(node, "disabledUnitTypes")
        THEN Error("AttributeError")
        ELSE IF ~HasChild(node, "players") THEN Error("AttributeError")
        ELSE IF ~HasChild(node, "factions") THEN Error("AttributeError")
        ELSE Value(Put(Put(Put(values,
                 "disabledUnitTypes",
                 [i \in DOMAIN Entries(node, "disabledUnitTypes", "type") |->
                     pyval(Entries(node, "disabledUnitTypes", "type")[i])]),
                 "players",
                 [i \in DOMAIN Child(node, "players").children |->
                     _parse_player(Child(node, "players").children[i])]),
                 "factions",
                 [i \in DOMAIN Child(node, "factions").children |->
                     _parse_faction(Child(node, "factions").children[i])]))

\* ELIZA._parse_map_layout(node)
_parse_map_layout(node) ==
    LET complex_types == {"terrains"}
        values == ScalarValues(node, complex_types)
    IN  IF ScalarsFail(node, complex_types) THEN Error("AttributeError")
        ELSE IF IntAttr(node, "id").exc # "" THEN IntAttr(node, "id")
        ELSE IF ~HasChild(node, "terrains") THEN Error("AttributeError")
        ELSE Value(Put(Put(values, "id", IntAttr(node, "id").val),
                 "terrains",
                 [i \in DOMAIN Child(node, "terrains").children |->
                     _parse_attrs(Child(node, "terrains").children[i],
                                  Table({"x", "y", "startFaction"},
                                        {"type", "startUnit", "startUnitOwner"},
                                        {}))]))

\* weewar.api._parse_game(node): the id is the attribute text, the disabled
\* unit types are the attribute values of <disabledUnitTypes>
api__parse_game(node) ==
    LET complex_types == {"players", "disabledUnitTypes"}
        disabled == Child(node, "disabledUnitTypes")
    IN  IF ScalarsFail(node, complex_types) THEN Error("AttributeError")
        ELSE IF ~HasChild(node, "disabledUnitTypes")
        THEN Error("AttributeError")
        ELSE Value(Put(Put(ScalarValues(node, complex_types),
                           "id", Get(node, "id")),
                       "disabledUnitTypes",
                       {disabled.attrs[k] : k \in DOMAIN disabled.attrs}))

\* weewar.api.headquarter, from the decoded root on: ONE dict is built, from
\* the (tag, pyval) pairs of the <game> elements under <games>
api_headquarter_games(root) ==
    LET games == findall(Child(root, "games"), "game")
    IN  IF ~HasChild(root, "inNeedOfAttention") THEN Error("AttributeError")
        ELSE IF ~HasChild(root, "games") THEN Error("AttributeError")
        ELSE IF \E i \in DOMAIN games : games[i].children # <<>>
        THEN Error("AttributeError")
        ELSE Value([needAttention |-> Child(root, "inNeedOfAttention"),
                    games |-> <<[tag \in {games[i].tag : i \in DOMAIN games}
                                    |-> pyval(games[Len(games)])]>>])

\* ------------------------------------------------------------ state machine
VARIABLES
    now,        \* wall clock, in ticks
    client,     \* a long-lived ELIZA instance: username, key, last_call
    pc,         \* the caller: "idle", or "returned" from the call in `call`
    call,       \* the last invocation: interface, operation, arguments, env
    outcome,    \* what it returned or raised
    reqs,       \* the requests it sent to the transport, in order
    last_sent,  \* when the long-lived client last sent a request
    mapper,     \* the mapper last applied to a decoded payload
    payload,    \* the payload it was applied to
    record      \* what it produced

opvars == <<now, client, pc, call, outcome, reqs, last_sent>>
mapvars == <<mapper, payload, record>>
vars == <<now, client, pc, call, outcome, reqs, last_sent, mapper, payload,
          record>>

NoPos == <<0, 0>>
Call(api, op, id, name, pos, type, env) ==
    [api |-> api, op |-> op, id |-> id, name |-> name, pos |-> pos,
     type |-> type, env |-> env]
NoCall == Call("", "", 0, "", NoPos, "", Env(0, FALSE, NoNode))

NoPayload == [node |-> Leaf("", <<>>), attrs |-> [k \in {} |-> ""]]
NoRecord == Error("")

Init ==
    /\ mapper = ""
    /\ payload = NoPayload
    /\ record = NoRecord
    /\ now = Start
    /\ client \in {ELIZA(c.username, c.key) :
                       c \in Credentials \cup {NoCredentials}}
    /\ pc = "idle"
    /\ call = NoCall
    /\ outcome = NoOutcome
    /\ reqs = <<>>
    /\ last_sent = Epoch

\* the caller invokes an operation and gets its result r; a method of the
\* long-lived client leaves its last_call behind, a module-level function
\* works on an instance of its own
Invoke(c, r) ==
    /\ pc' = "returned"
    /\ call' = c
    /\ outcome' = r.out
    /\ reqs' = r.reqs
    /\ client' = IF c.api = "client"
                 THEN [client EXCEPT !.last_call = r.last_call] ELSE client
    /\ last_sent' = IF c.api = "client" /\ r.reqs # <<>> THEN now
                    ELSE last_sent
    /\ UNCHANGED <<now, mapvars>>

\* ---- methods of the long-lived client
Client_game ==
    /\ pc = "idle"
    /\ \E id \in Ids, env \in ReadEnvs("game") :
        Invoke(Call("client", "game", id, "", NoPos, "", env),
               ReadOnlyAPI_game(client, now, id, env))
Client_open_games ==
    /\ pc = "idle"
    /\ \E env \in ReadEnvs("games") :
        Invoke(Call("client", "open_games", 0, "", NoPos, "", env),
               ReadOnlyAPI_open_games(client, now, env))
Client_all_users ==
    /\ pc = "idle"
    /\ \E env \in ReadEnvs("users") :
        Invoke(Call("client", "all_users", 0, "", NoPos, "", env),
               ReadOnlyAPI_all_users(client, now, env))
Client_user ==
    /\ pc = "idle"
    /\ \E u \in Usernames, env \in ReadEnvs("user") :
        Invoke(Call("client", "user", 0, u, NoPos, "", env),
               ReadOnlyAPI_user(client, now, u, env))
Client_latest_maps ==
    /\ pc = "idle"
    /\ \E env \in ReadEnvs("maps") :
        Invoke(Call("client", "latest_maps", 0, "", NoPos, "", env),
               ReadOnlyAPI_latest_maps(client, now, env))
Client_headquarter ==
    /\ pc = "idle"
    /\ \E env \in ReadEnvs("games") :
        Invoke(Call("client", "headquarter", 0, "", NoPos, "", env),
               ReadOnlyAPI_headquarter(client, now, env))
Client_game_state ==
    /\ pc = "idle"
    /\ \E id \in Ids, env \in ReadEnvs("game") :
        Invoke(Call("client", "game_state", id, "", NoPos, "", env),
               ELIZA_game_state(client, now, id, env))
Client_map_layout ==
    /\ pc = "idle"
    /\ \E id \in Ids, env \in ReadEnvs("map") :
        Invoke(Call("client", "map_layout", id, "", NoPos, "", env),
               ELIZA_map_layout(client, now, id, env))
Client_chat ==
    /\ pc = "idle"
    /\ \E id \in Ids, msg \in ChatMessages, env \in CommandEnvs :
        Invoke(Call("client", "chat", id, msg, NoPos, "", env),
               ELIZA_chat(client, now, id, msg, env))
Client_build ==
    /\ pc = "idle"
    /\ \E id \in Ids, p \in Positions, ty \in UnitTypes, env \in CommandEnvs :
        Invoke(Call("client", "build", id, "", p, ty, env),
               ELIZA_build(client, now, id, p, ty, env))
Client_move_options ==
    /\ pc = "idle"
    /\ \E id \in Ids, p \in Positions, ty \in UnitTypes, env \in CommandEnvs :
        Invoke(Call("client", "move_options", id, "", p, ty, env),
               ELIZA_move_options(client, now, id, p, ty, env))
Client_attack_options ==
    /\ pc = "idle"
    /\ \E id \in Ids, p \in Positions, ty \in UnitTypes, moved \in {-1, 1},
       env \in CommandEnvs :
        Invoke(Call("client", "attack_options", id, "", p, ty, env),
               ELIZA_attack_options(client, now, id, p, ty, moved, env))

\* ---- module-level functions of src/weewar.py
Module_game ==
    /\ pc = "idle"
    /\ \E id \in Ids, env \in ReadEnvs("game") :
        Invoke(Call("module", "game", id, "", NoPos, "", env),
               game(now, id, env))
Module_open_games ==
    /\ pc = "idle"
    /\ \E env \in ReadEnvs("games") :
        Invoke(Call("module", "open_games", 0, "", NoPos, "", env),
               open_games(now, env))
Module_all_users ==
    /\ pc = "idle"
    /\ \E env \in ReadEnvs("users") :
        Invoke(Call("module", "all_users", 0, "", NoPos, "", env),
               all_users(now, env))
Module_user ==
    /\ pc = "idle"
    /\ \E u \in Usernames, env \in ReadEnvs("user") :
        Invoke(Call("module", "user", 0, u, NoPos, "", env),
               user(now, u, env))
Module_latest_maps ==
    /\ pc = "idle"
    /\ \E env \in ReadEnvs("maps") :
        Invoke(Call("module", "latest_maps", 0, "", NoPos, "", env),
               latest_maps(now, env))
Module_headquarter ==
    /\ pc = "idle"
    /\ \E c \in Credentials, env \in ReadEnvs("games") :
        Invoke(Call("module", "headquarter", 0, "", NoPos, "", env),
               headquarter(now, c.username, c.key, env))
Module_game_state ==
    /\ pc = "idle"
    /\ \E c \in Credentials, id \in Ids, env \in ReadEnvs("game") :
        Invoke(Call("module", "game_state", id, "", NoPos, "", env),
               game_state(now, c.username, c.key, id, env))
Module_map_layout ==
    /\ pc = "idle"
    /\ \E id \in Ids, env \in ReadEnvs("map") :
        Invoke(Call("module", "map_layout", id, "", NoPos, "", env),
               map_layout(now, id, env))
Module_finish_turn ==
    /\ pc = "idle"
    /\ \E c \in Credentials, id \in Ids, env \in CommandEnvs :
        Invoke(Call("module", "finish_turn", id, "", NoPos, "", env),
               finish_turn(now, c.username, c.key, id, env))
Module_accept_invitation ==
    /\ pc = "idle"
    /\ \E c \in Credentials, id \in Ids, env \in CommandEnvs :
        Invoke(Call("module", "accept_invitation", id, "", NoPos, "", env),
               accept_invitation(now, c.username, c.key, id, env))
Module_decline_invitation ==
    /\ pc = "idle"
    /\ \E c \in Credentials, id \in Ids, env \in CommandEnvs :
        Invoke(Call("module", "decline_invitation", id, "", NoPos, "", env),
               decline_invitation(now, c.username, c.key, id, env))
Module_send_reminder ==
    /\ pc = "idle"
    /\ \E c \in Credentials, id \in Ids, env \in CommandEnvs :
        Invoke(Call("module", "send_reminder", id, "", NoPos, "", env),
               send_reminder(now, c.username, c.key, id, env))
Module_surrender_game ==
    /\ pc = "idle"
    /\ \E c \in Credentials, id \in Ids, env \in CommandEnvs :
        Invoke(Call("module", "surrender_game", id, "", NoPos, "", env),
               surrender_game(now, c.username, c.key, id, env))
Module_abandon_game ==
    /\ pc = "idle"
    /\ \E c \in Credentials, id \in Ids, env \in CommandEnvs :
        Invoke(Call("module", "abandon_game", id, "", NoPos, "", env),
               abandon_game(now, c.username, c.key, id, env))
Module_remove_game ==
    /\ pc = "idle"
    /\ \E c \in Credentials, id \in Ids, env \in CommandEnvs :
        Invoke(Call("module", "remove_game", id, "", NoPos, "", env),
               remove_game(now, c.username, c.key, id, env))
Module_chat ==
    /\ pc = "idle"
    /\ \E c \in Credentials, id \in Ids, msg \in ChatMessages,
       env \in CommandEnvs :
        Invoke(Call("module", "chat", id, msg, NoPos, "", env),
               chat(now, c.username, c.key, id, msg, env))
Module_build_unit ==
    /\ pc = "idle"
    /\ \E c \in Credentials, id \in Ids, p \in Positions, ty \in UnitTypes,
       env \in CommandEnvs :
        Invoke(Call("module", "build", id, "", p, ty, env),
               build_unit(now, c.username, c.key, id, p, ty, env))
Module_unit_move_options ==
    /\ pc = "idle"
    /\ \E c \in Credentials, id \in Ids, p \in Positions, ty \in UnitTypes,
       env \in CommandEnvs :
        Invoke(Call("module", "move_options", id, "", p, ty, env),
               unit_move_options(now, c.username, c.key, id, ty, p, env))
Module_unit_attack_options ==
    /\ pc = "idle"
    /\ \E c \in Credentials, id \in Ids, p \in Positions, ty \in UnitTypes,
       moved \in {-1, 1}, env \in CommandEnvs :
        Invoke(Call("module", "attack_options", id, "", p, ty, env),
               unit_attack_options(now, c.username, c.key, id, ty, p, moved,
                                   env))
Module_move_unit ==
    /\ pc = "idle"
    /\ \E c \in Credentials, id \in Ids, p \in Positions, to \in Positions,
       ty \in UnitTypes, env \in CommandEnvs :
        Invoke(Call("module", "move_unit", id, "", p, ty, env),
               move_unit(now, c.username, c.key, id, ty, p, to, env))
Module_attack_with ==
    /\ pc = "idle"
    /\ \E c \in Credentials, id \in Ids, p \in Positions, to \in Positions,
       ty \in UnitTypes, env \in CommandEnvs :
        Invoke(Call("module", "attack_with", id, "", p, ty, env),
               attack_with(now, c.username, c.key, id, ty, p, to, env))
Module_capture_base ==
    /\ pc = "idle"
    /\ \E c \in Credentials, id \in Ids, p \in Positions, ty \in UnitTypes,
       env \in CommandEnvs :
        Invoke(Call("module", "capture_base", id, "", p, ty, env),
               capture_base(now, c.username, c.key, id, ty, p, env))
Module_repair_unit ==
    /\ pc = "idle"
    /\ \E c \in Credentials, id \in Ids, p \in Positions, ty \in UnitTypes,
       env \in CommandEnvs :
        Invoke(Call("module", "repair_unit", id, "", p, ty, env),
               repair_unit(now, c.username, c.key, id, ty, p, env))

\* ---- functions of the legacy module weewar.api
Legacy_game ==
    /\ pc = "idle"
    /\ \E id \in Ids, env \in ReadEnvs("game") :
        Invoke(Call("legacy", "game", id, "", NoPos, "", env),
               api_game(id, env))
Legacy_user ==
    /\ pc = "idle"
    /\ \E u \in Usernames, env \in ReadEnvs("user") :
        Invoke(Call("legacy", "user", 0, u, NoPos, "", env),
               api_user(u, env))

\* ---- the caller takes the result and is ready for its next call
Resume ==
    /\ pc = "returned"
    /\ pc' = "idle"
    /\ call' = NoCall
    /\ outcome' = NoOutcome
    /\ reqs' = <<>>
    /\ UNCHANGED <<now, client, last_sent, mapvars>>

\* ---- time passes
Tick ==
    /\ now < Start + MaxTime
    /\ now' = now + 1
    /\ UNCHANGED <<client, pc, call, outcome, reqs, last_sent, mapvars>>

Next ==
    \/ Client_game \/ Client_open_games \/ Client_all_users \/ Client_user
    \/ Client_latest_maps \/ Client_headquarter \/ Client_game_state
    \/ Client_map_layout \/ Client_chat \/ Client_build
    \/ Client_move_options \/ Client_attack_options
    \/ Module_game \/ Module_open_games \/ Module_all_users \/ Module_user
    \/ Module_latest_maps \/ Module_headquarter \/ Module_game_state
    \/ Module_map_layout \/ Module_finish_turn \/ Module_accept_invitation
    \/ Module_decline_invitation \/ Module_send_reminder
    \/ Module_surrender_game \/ Module_abandon_game \/ Module_remove_game
    \/ Module_chat \/ Module_build_unit \/ Module_unit_move_options
    \/ Module_unit_attack_options \/ Module_move_unit \/ Module_attack_with
    \/ Module_capture_base \/ Module_repair_unit
    \/ Legacy_game \/ Legacy_user
    \/ Resume \/ Tick

Spec == Init /\ [][Next]_vars

\* ----------------------------------------------- the mappers on their own
MaxChildren == 2        \* child elements of one kind under one parent

\* a mapper is applied to a decoded payload; each behaviour applies one
Apply(name, node, attrs, r) ==
    /\ mapper' = name
    /\ payload' = [node |-> node, attrs |-> attrs]
    /\ record' = r
    /\ UNCHANGED opvars

NoTable == [k \in {} |-> ""]
\* elements with any of the attributes x, finished, foo
AttrTexts == {T_7, T_abc, T_true, T_TRUE, T_sp_true_sp, T_false}
AttrNodes(tag, keys) ==
    UNION {{XNode(tag, a, <<>>, <<>>) : a \in [S -> AttrTexts]} :
               S \in SUBSET keys}
\* the tables _parse_attrs is called with are parts of this one
TerrainTable ==
    [k \in {"x", "y", "type", "finished"} |->
        CASE k \in {"x", "y"} -> "int" [] k = "type" -> "str"
          [] k = "finished" -> "bool"]
Tables == {[k \in S |-> TerrainTable[k]] : S \in SUBSET DOMAIN TerrainTable}

Apply_parse_attrs ==
    /\ mapper = ""
    /\ \E node \in AttrNodes("unit", {"x", "finished", "foo"}),
          attrs \in Tables :
        Apply("_parse_attrs", node, attrs, Value(_parse_attrs(node, attrs)))

\* sequences of at most MaxChildren elements of S
Children(S) == UNION {[1..n -> S] : n \in 0..MaxChildren}
\* either nothing or the one element
Maybe(node) == {<<>>, <<node>>}
BoolTexts == {T_true, T_TRUE, T_sp_true_sp, T_false}
IntTexts == {T_7, T_abc}
\* elements with optional attributes, each drawn from its own texts
WithAttrs(tag, texts, text, children) ==
    UNION {{XNode(tag, a, text, children) :
               a \in {f \in [S -> UNION {texts[k] : k \in S}] :
                          \A k \in S : f[k] \in texts[k]}} :
              S \in SUBSET DOMAIN texts}

\* scalar children a payload may have besides the documented <name>: none, an
\* <id>, or an element <foo> no entity documents
Extras == {<<>>, <<Leaf("id", T_12)>>, <<Leaf("foo", T_abc)>>}
\* the attribute choices of the root element
IdTexts == [k \in {"id"} |-> IntTexts]
IdAttrs == WithAttrs("", IdTexts, <<>>, <<>>)

\* <game id=".."> [<id>] <name> [<players> <player index result current>..]
\* [<disabledUnitTypes> <type>]
PlayerTexts ==
    [k \in {"index", "result", "current"} |->
        CASE k = "index" -> IntTexts [] k = "result" -> {}
          [] k = "current" -> BoolTexts]
PlayerNodes == WithAttrs("player", PlayerTexts, T_abc, <<>>)
Container(tag, lists) == {<<XNode(tag, NoAttrs, <<>>, l)>> : l \in lists}
GameNode(root, id, players, disabled) ==
    XNode("game", root.attrs, <<>>,
          id \o <<Leaf("name", T_abc)>> \o players \o disabled)

Apply_parse_game ==
    /\ mapper = ""
    /\ \E root \in IdAttrs, id \in Extras,
          players \in {<<>>} \cup Container("players", Children(PlayerNodes)),
          disabled \in {<<>>} \cup Container("disabledUnitTypes",
                                             {<<Leaf("type", T_abc)>>}) :
        Apply("_parse_game", GameNode(root, id, players, disabled), NoTable,
              _parse_game(GameNode(root, id, players, disabled)))

Apply_api_parse_game ==
    /\ mapper = ""
    /\ \E root \in IdAttrs, id \in Extras,
          players \in {<<>>} \cup Container("players", Children(PlayerNodes)),
          disabled \in {<<>>} \cup Container("disabledUnitTypes",
                                             {<<Leaf("type", T_abc)>>}) :
        Apply("api._parse_game", GameNode(root, id, players, disabled),
              NoTable, api__parse_game(GameNode(root, id, players, disabled)))

\* <headquarters> [<inNeedOfAttention>] <game inNeedOfAttention="..">..,
\* the games either directly under the root or under <games>
HqGameNodes ==
    UNION {WithAttrs("game", [k \in {"inNeedOfAttention"} |-> BoolTexts],
                     <<>>, <<Leaf("id", id), Leaf("name", T_abc)>>) :
              id \in {T_7, T_12}}
HqNode(need, games, nested) ==
    XNode("headquarters", NoAttrs, <<>>,
          need \o (IF nested THEN <<XNode("games", NoAttrs, <<>>, games)>>
                   ELSE games))

Apply_headquarter ==
    /\ mapper = ""
    /\ \E need \in Maybe(Leaf("inNeedOfAttention", T_7)),
          games \in Children(HqGameNodes), nested \in BOOLEAN :
        Apply("headquarter", HqNode(need, games, nested), NoTable,
              ReadOnlyAPI_headquarter_games(HqNode(need, games, nested)))

Apply_api_headquarter ==
    /\ mapper = ""
    /\ \E need \in Maybe(Leaf("inNeedOfAttention", T_7)),
          games \in Children(HqGameNodes), nested \in BOOLEAN :
        Apply("api.headquarter", HqNode(need, games, nested), NoTable,
              api_headquarter_games(HqNode(need, games, nested)))

\* <map id=".."> [<id>] <name> [<width>]
MapNode(root, id, width) ==
    XNode("map", root.attrs, <<>>, id \o <<Leaf("name", T_abc)>> \o width)

Apply_parse_map ==
    /\ mapper = ""
    /\ \E root \in IdAttrs, id \in Extras,
          width \in Maybe(Leaf("width", T_7)) :
        Apply("_parse_map", MapNode(root, id, width), NoTable,
              _parse_map(MapNode(root, id, width)))

\* <user name=".." id=".."> [<id>] <points> <favoriteUnits> <preferredPlayers>
\* <games> [<maps>]
UserAttrs ==
    WithAttrs("", [k \in {"name", "id"} |->
                      IF k = "id" THEN IntTexts ELSE {T_abc}], <<>>, <<>>)
UserNode(root, id, units, players, games, maps) ==
    XNode("user", root.attrs, <<>>,
          id \o <<Leaf("points", T_7),
                  XNode("favoriteUnits", NoAttrs, <<>>, units),
                  XNode("preferredPlayers", NoAttrs, <<>>, players),
                  XNode("games", NoAttrs, <<>>, games)>> \o maps)

Apply_parse_user ==
    /\ mapper = ""
    /\ \E root \in UserAttrs, id \in Extras,
          units \in Maybe(XNode("unit", [k \in {"code"} |-> T_abc],
                                <<>>, <<>>)),
          players \in Children(WithAttrs("player", IdTexts, <<>>, <<>>)),
          games \in Maybe(XNode("game", [k \in {"name"} |-> T_abc],
                                T_12, <<>>)),
          maps \in {<<>>} \cup Container("maps", {<<Leaf("map", T_7)>>}) :
        Apply("_parse_user", UserNode(root, id, units, players, games, maps),
              NoTable,
              _parse_user(UserNode(root, id, units, players, games, maps)))

\* <games> <game id=".."/> .. </games>
Apply_open_games ==
    /\ mapper = ""
    /\ \E games \in Children(WithAttrs("game", IdTexts, <<>>, <<>>)) :
        Apply("open_games", XNode("games", NoAttrs, <<>>, games), NoTable,
              ReadOnlyAPI_open_games_ids(XNode("games", NoAttrs, <<>>, games)))

\* <game> <name> <disabledUnitTypes> <players> <player current>..
\* <factions> <faction current> [<unit finished>] [<terrain>] ..
FactionNodes ==
    UNION {WithAttrs("faction", [k \in {"current"} |-> {T_true}], <<>>,
                     units \o terrain) :
              units \in {<<>>} \cup
                  {<<u>> : u \in WithAttrs("unit",
                                           [k \in {"finished"} |-> {T_true}],
                                           <<>>, <<>>)},
              terrain \in Maybe(XNode("terrain", [k \in {"x"} |-> T_7],
                                      <<>>, <<>>))}
GameStateNode(players, factions) ==
    XNode("game", NoAttrs, <<>>,
          <<Leaf("name", T_abc),
            XNode("disabledUnitTypes", NoAttrs, <<>>, <<Leaf("type", T_abc)>>),
            XNode("players", NoAttrs, <<>>, players),
            XNode("factions", NoAttrs, <<>>, factions)>>)

Apply_parse_game_state ==
    /\ mapper = ""
    /\ \E players \in
              Children(WithAttrs("player",
                                 [k \in {"current"} |-> {T_true, T_false}],
                                 T_abc, <<>>)),
          factions \in Children(FactionNodes) :
        Apply("_parse_game_state", GameStateNode(players, factions), NoTable,
              _parse_game_state(GameStateNode(players, factions)))

\* <map id=".."> [<id>] <name> [<terrains> <terrain x startFaction>..]
MapLayoutNode(root, id, terrains) ==
    XNode("map", root.attrs, <<>>, id \o <<Leaf("name", T_abc)>> \o terrains)

Apply_parse_map_layout ==
    /\ mapper = ""
    /\ \E root \in IdAttrs, id \in Extras,
          terrains \in
              {<<>>} \cup
              Container("terrains",
                        Children(WithAttrs("terrain",
                            [k \in {"x", "startFaction"} |-> IntTexts],
                            <<>>, <<>>))) :
        Apply("_parse_map_layout", MapLayoutNode(root, id, terrains), NoTable,
              _parse_map_layout(MapLayoutNode(root, id, terrains)))

MapperNext ==
    \/ Apply_parse_attrs
    \/ Apply_parse_game
    \/ Apply_parse_map
    \/ Apply_parse_user
    \/ Apply_open_games
    \/ Apply_headquarter
    \/ Apply_parse_game_state
    \/ Apply_parse_map_layout
    \/ Apply_api_parse_game
    \/ Apply_api_headquarter

\* the mappers read nothing of the client: one client is enough
MapperInit == Init /\ client = ELIZA("None", "None")

MapperSpec == MapperInit /\ [][MapperNext]_vars

\* ------------------------------------------------------------- properties
Returned == pc = "returned"
ClassBased == call.api \in {"client", "module"}
SimpleOps ==
    {"finish_turn", "accept_invitation", "decline_invitation",
     "send_reminder", "surrender_game", "abandon_game", "remove_game"}
UnitOps == {"move_unit", "attack_with", "capture_base", "repair_unit"}
CommandOps ==
    SimpleOps \cup UnitOps
        \cup {"chat", "build", "move_options", "attack_options"}
IsCommand == Returned /\ ClassBased /\ call.op \in CommandOps
\* the server answers this call's request with <error>m</error>
ErrorReply(m) == call.env = Env(200, TRUE, ErrorNode(m))
OkReply == call.env.status = 200 /\ call.env.wf /\ call.env.node.tag = "ok"
Raises(e) == outcome.kind = "raise" /\ outcome.exc = e
Returns(v) == outcome.kind = "return" /\ outcome.val = v

\* C1: in the class-based client a 404 answer makes game(id) raise
\* GameNotFound(id), user(username) raise UserNotFound(username),
\* map_layout(id) raise MapNotFound(id) and game_state(id) raise
\* GameNotFound(id); the generic NotFound never reaches the caller.
C1_EntityNotFound ==
    (Returned /\ ClassBased /\ call.env.status = 404
        /\ call.op \in {"game", "user", "map_layout", "game_state"})
    => /\ outcome.kind = "raise"
       /\ outcome.exc = CASE call.op = "game" -> "GameNotFound"
                          [] call.op = "game_state" -> "GameNotFound"
                          [] call.op = "user" -> "UserNotFound"
                          [] call.op = "map_layout" -> "MapNotFound"
       /\ outcome.args = IF call.op = "user" THEN <<call.name>>
                         ELSE <<call.id>>

\* C2: in the legacy module weewar.api, game with an id the server does not
\* know (404) raises GameNotFound and user with an unknown username raises
\* UserNotFound.
C2_LegacyNotFound ==
    (Returned /\ call.api = "legacy" /\ call.env.status = 404)
    => /\ call.op = "game" => Raises("GameNotFound")
       /\ call.op = "user" => Raises("UserNotFound")

\* C3: a 401 answer to game_state(id) raises NotYourGame(id); a 401 answer to
\* any other operation raises AuthenticationError, never NotYourGame.
C3_NotYourGame ==
    (Returned /\ ClassBased /\ call.env.status = 401)
    => IF call.op = "game_state"
       THEN Raises("NotYourGame") /\ outcome.args = <<call.id>>
       ELSE Raises("AuthenticationError")

\* C4: every call that reaches the transport classifies the HTTP status
\* before decoding: 401 raises AuthenticationError, 404 raises NotFound (or
\* the entity's not-found error derived from it), 500 raises ServerError;
\* and no public operation returns normally on such an answer.
C4_StatusClassified ==
    (Returned /\ ClassBased /\ call.env.status \in {401, 404, 500})
    => /\ outcome.kind = "raise"
       /\ reqs # <<>> =>
            outcome.exc \in
                CASE call.env.status = 401 ->
                        {"AuthenticationError", "NotYourGame"}
                  [] call.env.status = 404 ->
                        {"NotFound", "GameNotFound", "UserNotFound",
                         "MapNotFound"}
                  [] call.env.status = 500 -> {"ServerError"}

\* the error kind the command-error table gives a message
ErrorKind(m) ==
    CASE m = MsgNotYourTurn -> "NotYourTurn"
      [] m = MsgNotYourTerrain -> "NotYourTerrain"
      [] m = MsgNotYourUnit -> "NotYourUnit"
      [] m = MsgNotEnoughCredits -> "NotEnoughCredits"
      [] m = MsgCannotBuildMore -> "CannotBuildMoreUnitsHere"
      [] m = MsgWrongTerrain -> "WrongTerrain"
      [] m = MsgBlocked -> "FieldIsBlocked"
      [] m = MsgGameNotFound -> "GameNotFound"

\* the (operation, message) pairs of the benign-failure remaps
BenignPairs ==
    {<<"accept_invitation", MsgAlreadyAccepted>>,
     <<"decline_invitation", MsgCannotDecline>>,
     <<"send_reminder", MsgCannotRemind>>,
     <<"surrender_game", MsgCannotSurrender>>,
     <<"surrender_game", MsgNotRunning>>,
     <<"abandon_game", MsgCannotSurrender>>,
     <<"abandon_game", MsgNotRunning>>,
     <<"remove_game", MsgAlreadyDeleted>>}

\* C5: for each of the eight messages of the command-error table and every
\* command operation, the reply <error>message</error> makes the operation
\* raise exactly the mapped error kind.
C5_TableIsTotal ==
    \A m \in TableMessages :
        (IsCommand /\ ErrorReply(m)) => Raises(ErrorKind(m))

\* C6: for every command operation, a reply <error>m</error> whose text is
\* neither in the command-error table nor a benign remap of the operation
\* raises ELIZAError whose node carries the text m.
C6_UnmappedIsGeneric ==
    \A m \in Messages \ TableMessages :
        (IsCommand /\ ErrorReply(m) /\ <<call.op, m>> \notin BenignPairs)
        => Raises("ELIZAError") /\ outcome.node.text = m

C8_BenignReturnsFalse ==
    \A p \in {q \in BenignPairs : q[1] # "abandon_game"} :
        (IsCommand /\ call.op = p[1] /\ ErrorReply(p[2])) => Returns("False")

\* C9: each of the replies "Can not surrender." and "Game is not running."
\* makes abandon_game return false, exactly as it makes surrender_game
\* return false.
C9_AbandonLikeSurrender ==
    \A m \in {MsgCannotSurrender, MsgNotRunning} :
        (IsCommand /\ call.op \in {"surrender_game", "abandon_game"}
            /\ ErrorReply(m))
        => Returns("False")

\* C10: a simple command whose server reply has root tag ok returns true,
\* with no exception raised between building the command element and
\* classifying the reply.
C10_SimpleOkReturnsTrue ==
    (IsCommand /\ call.op \in SimpleOps /\ OkReply) => Returns("True")

\* the credentials the instance serving the call was constructed with
WithCredentials ==
    IF call.api = "client" THEN client.username # "None"
    ELSE call.op \in CommandOps \cup {"headquarter", "game_state"}
AuthPaths == {URL_HEADQUARTER, URL_GAME_STATE, URL_ELIZA_COMMANDS}

\* C11: dispatching one gameplay command for game id g sends exactly one
\* request: a POST to /api1/eliza, with the client's credentials, whose body
\* is the serialized envelope <weewar game="g"> holding the one command
\* element; the transport is reached for every command operation.
C11_OneEnvelopePost ==
    IsCommand
    => /\ Len(reqs) = 1
       /\ reqs[1].method = "POST"
       /\ reqs[1].path = URL_ELIZA_COMMANDS
       /\ reqs[1].auth \in Credentials
       /\ Len(reqs[1].body) = 1
       /\ reqs[1].body[1].xml.tag = "weewar"
       /\ reqs[1].body[1].xml.attrs = {<<"game", str(call.id)>>}
       /\ Len(reqs[1].body[1].xml.children) = 1

\* C12: a client constructed with a username and an API key sends every
\* request to /api1/headquarters, /api1/gamestate/{id} and /api1/eliza with
\* that pair as HTTP Basic credentials.
C12_AuthSent ==
    (Returned /\ ClassBased /\ WithCredentials)
    => \A i \in 1..Len(reqs) :
           reqs[i].path \in AuthPaths => reqs[i].auth \in Credentials

\* C13: of two consecutive requests sent through the same client instance,
\* the second leaves no earlier than 1/REQUESTS_PER_SECOND after the first.
C13_MinInterval ==
    [][(pc = "idle" /\ pc' = "returned" /\ call'.api = "client"
            /\ reqs' # <<>>)
        => now - last_sent >= throttle]_vars

\* the answer to the call is a failure: 401, 404, 500, a body that does not
\* parse, or an <error> reply
Failure ==
    \/ call.env.status \in {401, 404, 500}
    \/ ~call.env.wf
    \/ call.env.node.tag = "error"

\* C14: every public operation sends at most one request per invocation;
\* after a failure no second request is sent and the failure is raised to the
\* caller of that invocation.
C14_NoRetry ==
    Returned
    => /\ Len(reqs) <= 1
       /\ (reqs # <<>> /\ Failure) => outcome.kind = "raise"

\* game() was answered with 500: one request, ServerError raised
C14_Witness ==
    /\ Returned
    /\ call.op = "game"
    /\ call.env.status = 500
    /\ Len(reqs) = 1
    /\ Raises("ServerError")

\* C15: _parse_attrs(node, table) returns a mapping whose keys are among the
\* keys of table; a key of non-bool type is in the result exactly when the
\* node has the attribute; a key of bool type is always in the result, false
\* when the node lacks the attribute; attributes not in table never appear.
C15_ParseAttrsKeys ==
    mapper = "_parse_attrs"
    => /\ DOMAIN record.val \subseteq DOMAIN payload.attrs
       /\ \A k \in DOMAIN payload.attrs :
            IF payload.attrs[k] = "bool"
            THEN /\ k \in DOMAIN record.val
                 /\ ~HasAttr(payload.node, k) => record.val[k] = PyFalse
            ELSE k \in DOMAIN record.val <=> HasAttr(payload.node, k)

\* _parse_attrs ran on a node with an attribute that is not in the table and
\* without the bool attribute that is
C15_Witness ==
    /\ mapper = "_parse_attrs"
    /\ HasAttr(payload.node, "foo")
    /\ HasAttr(payload.node, "x")
    /\ ~HasAttr(payload.node, "finished")
    /\ DOMAIN payload.attrs = {"x", "finished"}
    /\ DOMAIN record.val = {"x", "finished"}

\* the texts the coercion takes for true
TrueTexts == {T_true, T_TRUE, T_sp_true_sp}
IsTrue(node, key) == HasAttr(node, key) /\ node.attrs[key] \in TrueTexts
\* the players of the game payload and the games of the headquarter payload
PayloadPlayers == Child(payload.node, "players").children
PayloadGames == findall(payload.node, "game")

\* C16: wherever a mapper coerces an attribute to boolean (attributes read
\* through _parse_attrs, the player's current in game(), the per-game
\* inNeedOfAttention in headquarter()), the values "true", "TRUE" and " true "
\* yield true and every other value, an absent attribute included, yields
\* false.
C16_BooleanCoercion ==
    /\ mapper = "_parse_attrs" =>
         \A k \in DOMAIN payload.attrs :
            payload.attrs[k] = "bool" =>
                record.val[k] = PyTruth(IsTrue(payload.node, k))
    /\ (mapper = "_parse_game" /\ record.exc = "") =>
         \A i \in DOMAIN PayloadPlayers :
            /\ "current" \in DOMAIN record.val["players"][i]
            /\ record.val["players"][i]["current"]
                  = PyTruth(IsTrue(PayloadPlayers[i], "current"))
    /\ (mapper = "headquarter" /\ record.exc = "") =>
         \A i \in DOMAIN PayloadGames :
            record.val["games"][i]["inNeedOfAttention"]
                = PyTruth(IsTrue(PayloadGames[i], "inNeedOfAttention"))

\* what a lenient integer coercion of attribute key of node gives: the
\* integer, or the original text when it is no number
Lenient(node, key) ==
    IF IsNumeric(node.attrs[key]) THEN PyInt(int(node.attrs[key]))
    ELSE PyStr(node.attrs[key])
IntKeys(table) == {k \in DOMAIN table : table[k] = "int"}
RootIdMappers == {"_parse_map", "_parse_user", "_parse_map_layout"}

\* C17: in every mapper and read operation an integer-declared attribute
\* whose text is non-numeric, or which is absent, never makes the operation
\* raise, and a non-numeric text yields the original string: the root id in
\* _parse_map, _parse_user and _parse_map_layout, the game id in open_games,
\* the player index in _parse_game, all attributes read through _parse_attrs.
C17_IntegerLenient ==
    /\ mapper \in RootIdMappers \cup {"open_games", "_parse_game",
                                     "_parse_attrs"}
         => record.exc \notin {"ValueError", "TypeError"}
    /\ mapper = "_parse_attrs" =>
         \A k \in IntKeys(payload.attrs) :
            HasAttr(payload.node, k)
                => record.val[k] = Lenient(payload.node, k)
    /\ (mapper \in RootIdMappers /\ record.exc = ""
            /\ HasAttr(payload.node, "id"))
         => record.val["id"] = Lenient(payload.node, "id")
    /\ (mapper = "open_games" /\ record.exc = "") =>
         \A i \in DOMAIN PayloadGames :
            HasAttr(PayloadGames[i], "id")
                => record.val[i] = Lenient(PayloadGames[i], "id")
    /\ (mapper = "_parse_game" /\ record.exc = "") =>
         \A i \in DOMAIN PayloadPlayers :
            HasAttr(PayloadPlayers[i], "index")
                => record.val["players"][i]["index"]
                       = Lenient(PayloadPlayers[i], "index")

\* field key of entry is there, and is False when node lacks the attribute
BoolField(entry, node, key) ==
    /\ key \in DOMAIN entry
    /\ ~HasAttr(node, key) => entry[key] = PyFalse
PayloadFactions == Child(payload.node, "factions").children
\* the boolean fields of every record of game_state()
GameStateBooleans ==
    /\ \A i \in DOMAIN PayloadPlayers :
          BoolField(record.val["players"][i], PayloadPlayers[i], "current")
    /\ \A i \in DOMAIN PayloadFactions :
          /\ BoolField(record.val["factions"][i], PayloadFactions[i],
                       "current")
          /\ \A j \in DOMAIN findall(PayloadFactions[i], "unit") :
                BoolField(record.val["factions"][i]["units"][j],
                          findall(PayloadFactions[i], "unit")[j], "finished")
          /\ \A j \in DOMAIN findall(PayloadFactions[i], "terrain") :
                BoolField(record.val["factions"][i]["terrain"][j],
                          findall(PayloadFactions[i], "terrain")[j],
                          "finished")

C19_IdFromRootAttribute ==
    (/\ mapper \in RootIdMappers \cup {"_parse_game", "api._parse_game"}
     /\ HasAttr(payload.node, "id")
     /\ IsNumeric(payload.node.attrs["id"])
     /\ record.exc = "")
    => /\ "id" \in DOMAIN record.val
       /\ record.val["id"] = PyInt(int(payload.node.attrs["id"]))

\* the <game> elements of the headquarters reply, where each implementation
\* looks for them: under the root, or under <games> in the legacy module
HqGames ==
    IF mapper = "api.headquarter"
    THEN findall(Child(payload.node, "games"), "game")
    ELSE findall(payload.node, "game")
\* entry holds the child tag -> value pairs of gm and its attention flag
HqEntry(entry, gm) ==
    /\ DOMAIN entry = {gm.children[j].tag : j \in DOMAIN gm.children}
                          \cup {"inNeedOfAttention"}
    /\ \A j \in DOMAIN gm.children :
          entry[gm.children[j].tag] = pyval(gm.children[j])
    /\ entry["inNeedOfAttention"]
          = PyTruth(HasAttr(gm, "inNeedOfAttention")
                    /\ gm.attrs["inNeedOfAttention"] = T_true)

\* C20: headquarter() returns a games list with exactly one entry per <game>
\* element of the reply, in document order, each entry holding that game's own
\* child tag -> value pairs plus its own inNeedOfAttention flag, for 0, 1 and
\* more games, in the class-based client and in the legacy module.
C20_OneEntryPerGame ==
    (mapper \in {"headquarter", "api.headquarter"} /\ record.exc = "")
    => /\ Len(record.val["games"]) = Len(HqGames)
       /\ \A i \in DOMAIN HqGames : HqEntry(record.val["games"][i], HqGames[i])

\* the messages build() maps to an error kind carrying the coordinate
BuildCoordinateMessages ==
    {MsgNotYourTerrain, MsgCannotBuildMore, MsgWrongTerrain, MsgBlocked}

\* C21: build(game_id, (x, y), type) maps the reply "Not enough credits." to
\* NotEnoughCredits carrying the requested unit type, and maps "Not your
\* terrain.", "Cannot build any more units in this turn on this coordinate.",
\* "This Terrain cannot build the requested unit." and "Blocked by a unit." to
\* NotYourTerrain, CannotBuildMoreUnitsHere, WrongTerrain and FieldIsBlocked,
\* each carrying the build coordinate (x, y).
C21_BuildErrors ==
    (IsCommand /\ call.op = "build")
    => /\ ErrorReply(MsgNotEnoughCredits)
            => Raises("NotEnoughCredits") /\ outcome.args = <<call.type>>
       /\ \A m \in BuildCoordinateMessages :
            ErrorReply(m) => Raises(ErrorKind(m)) /\ outcome.args = call.pos

\* the three kinds that must not stand in for one another
OwnershipKinds == {"NotYourUnit", "NotYourTurn", "NotYourTerrain"}

\* C22: for move_unit, attack_with, capture_base and repair_unit on the unit
\* at (x, y), the reply "Not your Unit." raises NotYourUnit carrying (x, y),
\* the reply "Not your turn." raises NotYourTurn, and none of NotYourUnit,
\* NotYourTurn and NotYourTerrain is raised for a reply that names another.
C22_UnitErrors ==
    (IsCommand /\ call.op \in UnitOps)
    => /\ ErrorReply(MsgNotYourUnit)
            => Raises("NotYourUnit") /\ outcome.args = call.pos
       /\ ErrorReply(MsgNotYourTurn) => Raises("NotYourTurn")
       /\ \A m \in {MsgNotYourUnit, MsgNotYourTurn, MsgNotYourTerrain} :
            (ErrorReply(m) /\ outcome.kind = "raise")
                => outcome.exc \notin OwnershipKinds \ {ErrorKind(m)}

\* C24: "Game not found" and "Not your turn." are classified by the dispatcher
\* before any per-operation handler: for them build, move_options,
\* attack_options and every simple command but finish_turn raise GameNotFound
\* / NotYourTurn and never return their fallback value; any other <error>
\* reply makes move_options return an empty list and attack_options return
\* false.
C24_DispatcherFirst ==
    /\ (IsCommand /\ call.op \in {"build", "move_options", "attack_options"}
                                     \cup (SimpleOps \ {"finish_turn"}))
        => /\ ErrorReply(MsgGameNotFound) => Raises("GameNotFound")
           /\ ErrorReply(MsgNotYourTurn) => Raises("NotYourTurn")
    /\ \A m \in Messages \ {MsgGameNotFound, MsgNotYourTurn} :
        (IsCommand /\ ErrorReply(m))
        => /\ call.op = "move_options"
                => Returns("list") /\ outcome.args = <<>>
           /\ call.op = "attack_options" => Returns("False")

\* the method call c made on the instance self at time t
ClientCall(self, t, c) ==
    CASE c.op = "game" -> ReadOnlyAPI_game(self, t, c.id, c.env)
      [] c.op = "open_games" -> ReadOnlyAPI_open_games(self, t, c.env)
      [] c.op = "all_users" -> ReadOnlyAPI_all_users(self, t, c.env)
      [] c.op = "user" -> ReadOnlyAPI_user(self, t, c.name, c.env)
      [] c.op = "latest_maps" -> ReadOnlyAPI_latest_maps(self, t, c.env)
      [] c.op = "headquarter" -> ReadOnlyAPI_headquarter(self, t, c.env)
      [] c.op = "game_state" -> ELIZA_game_state(self, t, c.id, c.env)
      [] c.op = "map_layout" -> ELIZA_map_layout(self, t, c.id, c.env)
      [] c.op = "chat" -> ELIZA_chat(self, t, c.id, c.name, c.env)
      [] c.op = "build" -> ELIZA_build(self, t, c.id, c.pos, c.type, c.env)
      [] c.op = "move_options" ->
            ELIZA_move_options(self, t, c.id, c.pos, c.type, c.env)
      [] c.op = "attack_options" ->
            ELIZA_attack_options(self, t, c.id, c.pos, c.type, -1, c.env)
\* the same instance, had its previous call been long ago
Rested(self) == [self EXCEPT !.last_call = Epoch]

\* C25: throttling is transparent: a call on a client instance made less than
\* the throttle interval after the previous one has the outcome the same call
\* has after the interval, the throttle step never raises, after every call
\* that sent a request (one answered 401, 404 or 500 included) last_call is the
\* time of that call, and last_call never decreases.
C25_ThrottleTransparent ==
    [][/\ client'.last_call >= client.last_call
       /\ (pc = "idle" /\ pc' = "returned" /\ call'.api = "client")
            => /\ outcome' = ClientCall(Rested(client), now, call').out
               /\ outcome'.exc # "AttributeError"
               /\ reqs' # <<>> => client'.last_call = now]_vars

\* the fields each entity documents (the example payloads of the mappers)
DeclaredFields ==
    [m \in {"_parse_game", "_parse_user", "_parse_map"} |->
        CASE m = "_parse_game" ->
                {"id", "name", "round", "state", "pendingInvites", "pace",
                 "type", "url", "rated", "since", "players",
                 "disabledUnitTypes", "map", "mapUrl", "creditsPerBase",
                 "initialCredits", "playingSince"}
          [] m = "_parse_user" ->
                {"name", "id", "points", "profile", "draws", "victories",
                 "losses", "accountType", "on", "readyToPlay", "gamesRunning",
                 "lastLogin", "basesCaptured", "creditsSpent",
                 "favoriteUnits", "preferredPlayers", "games", "maps"}
          [] m = "_parse_map" ->
                {"id", "name", "initialCredits", "perBaseCredits", "width",
                 "height", "maxPlayers", "url", "thumbnail", "preview",
                 "revision", "creator", "creatorProfile"}]
\* the complex-child exclusion set of each mapper, and the keys the mapper
\* sets itself
Excluded ==
    [m \in DOMAIN DeclaredFields |->
        CASE m = "_parse_game" -> {"players", "disabledUnitTypes"}
          [] m = "_parse_user" ->
                {"favoriteUnits", "games", "maps", "preferredPlayers"}
          [] m = "_parse_map" -> {}]
SetByMapper ==
    [m \in DOMAIN DeclaredFields |->
        Excluded[m] \cup CASE m = "_parse_game" -> {}
                           [] m = "_parse_user" -> {"name", "id"}
                           [] m = "_parse_map" -> {"id"}]
ChildTags(node) == {node.children[i].tag : i \in DOMAIN node.children}
EntityRecord == mapper \in DOMAIN DeclaredFields /\ record.exc = ""

\* C23 as stated: the key set of every record of an entity mapper is bounded
\* by the entity's declared fields: a child element whose tag is not a
\* declared field (an unknown <foo> under <game>, <user> or <map>) never
\* appears as a key, and a tag of the complex-child exclusion set never
\* appears with a flattened scalar value.
C23_KeysBounded ==
    EntityRecord
    => /\ DOMAIN record.val \subseteq DeclaredFields[mapper]
       /\ \A tag \in Excluded[mapper] :
            Len(record.val[tag]) = Len(Child(payload.node, tag).children)

\* C23, amended: the keys of a record of _parse_game, _parse_user and
\* _parse_map are the tags of ALL child elements outside the mapper's
\* complex-child exclusion set, declared or not (an unknown <foo> appears with
\* its inferred scalar value), plus the keys the mapper sets itself; a tag of
\* the exclusion set appears only as the list its walker builds, one entry
\* per element, never as a flattened scalar.
C23_KeysFromChildren ==
    EntityRecord
    => /\ DOMAIN record.val
            = (ChildTags(payload.node) \ Excluded[mapper])
                  \cup SetByMapper[mapper]
       /\ \A i \in DOMAIN payload.node.children :
            payload.node.children[i].tag = "foo"
                => record.val["foo"] = pyval(payload.node.children[i])
       /\ \A tag \in Excluded[mapper] :
            Len(record.val[tag]) = Len(Child(payload.node, tag).children)

\* _parse_game mapped a <game> with an undocumented <foo> child and two
\* players, and the record has the key foo
C23_Witness ==
    /\ mapper = "_parse_game"
    /\ record.exc = ""
    /\ "foo" \in ChildTags(payload.node)
    /\ "foo" \in DOMAIN record.val
    /\ Len(record.val["players"]) = 2

====
